---- MODULE Spec2Model ----
(***************************************************************************)
(* Model of the pi2c-ms8-sniffer repository.                               *)
(*                                                                         *)
(*  - ms8_sniff_replay.py : multiset_difference, compute_intervals,        *)
(*    replay_transactions, I2CSniffer.sniff_for                            *)
(*  - i2c_sniff_and_replay.py : send_macro, I2CSniffer.run                 *)
(*  - sniffer.py : I2CSniffer.run (the standalone sniffer)                 *)
(*                                                                         *)
(* Timestamps and delays are integers (one unit = one clock reading).      *)
(***************************************************************************)
EXTENDS Integers, Sequences, FiniteSets, TLC

VARIABLES
    \* ---- multiset_difference / compute_intervals (ms8_sniff_replay.py) ----
    new,        \* argument 'new' of multiset_difference (the command capture)
    base,       \* argument 'base' of multiset_difference (the baseline capture)
    results,    \* value returned by multiset_difference
    txs,        \* argument of compute_intervals
    delays,     \* value returned by compute_intervals
    dpc,        \* which calls have been made
    \* ---- replay_transactions (ms8_sniff_replay.py) and send_macro
    \*      (i2c_sniff_and_replay.py) ----
    fn,          \* the replay operation that runs
    rtxs,        \* argument 'txs' of replay_transactions
    rdelays,     \* argument 'delays' of replay_transactions
    macro,       \* argument 'macro' of send_macro
    rpc,         \* position in the replay operation
    idx,         \* number of entries the loop is done with
    bus,         \* the SMBus handle: "none", "open" or "closed"
    pause_event, \* the threading.Event that pauses the sniffer
    writes,      \* the bus writes attempted so far (i2c_rdwr calls)
    waited,      \* total of the entry delays slept so far
    settles,     \* number of settling sleeps taken (send_macro)
    rlog,        \* the lines logged or printed
    outcome,     \* "running", "returned" or "raised"
    \* ---- the bus and I2CSniffer.sniff_for (ms8_sniff_replay.py) ----
    exch,        \* the exchange the bus master sends
    wave,        \* the line states the master has still to drive
    scl,         \* level of the clock line
    sda,         \* level of the data line
    stalled,     \* the master holds the lines still (a hung bus)
    everStalled, \* the master has stalled at some time
    sampled,     \* the sniffer has read a line since the last line change
    now,         \* time.time()
    stop_flag,   \* I2CSniffer._stop
    spc,         \* position of the sniffer in sniff_for
    ctx,         \* the byte being read: "hdr" or "payload"
    nbits,       \* bits of the byte read so far (_read_byte)
    val,         \* _read_byte.val
    bit,         \* _read_bit.bit
    start_ts,    \* sniff_for.start_ts
    addr,        \* sniff_for.addr
    rw,          \* sniff_for.rw
    payload,     \* sniff_for.payload
    out,         \* sniff_for.out
    \* ---- the sniffer thread I2CSniffer.run (i2c_sniff_and_replay.py); it
    \*      shares stop_flag (_stop_event), spc, ctx, nbits, val, bit, addr
    \*      and rw with sniff_for ----
    paused_seen, \* the thread's latest test of pause_event found it set
    late_reads,  \* pi.read calls the thread made while pause_event was set
    tlog,        \* the lines the thread has logged
    \* ---- _read_byte / read_byte on its own ----
    reads        \* what the nine calls of _read_bit are going to return

diffVars == <<new, base, results, txs, delays, dpc>>

replayVars == <<fn, rtxs, rdelays, macro, rpc, idx, bus, pause_event,
                writes, waited, settles, rlog, outcome>>

busVars == <<exch, wave, scl, sda, stalled, everStalled, sampled, now>>

snifferVars == <<stop_flag, spc, ctx, nbits, val, bit, start_ts, addr, rw,
                 payload, out>>

sniffVars == <<busVars, snifferVars>>

threadVars == <<paused_seen, late_reads, tlog>>

byteVars == <<reads>>

vars == <<diffVars, replayVars, sniffVars, threadVars, byteVars>>

\* The variables the diff stage, the replay stage and the capture leave alone.
notDiffVars == <<replayVars, sniffVars, threadVars, byteVars>>
notReplayVars == <<diffVars, sniffVars, threadVars, byteVars>>
notSniffVars == <<diffVars, replayVars, threadVars, byteVars>>
notThreadVars == <<diffVars, replayVars, byteVars>>

-----------------------------------------------------------------------------
(* Bounds of the model *)

MaxNew == 3      \* longest command capture
MaxBase == 2     \* longest baseline capture
MaxTs == 2       \* start_ts ranges over 0..MaxTs
MaxTxs == 3      \* longest list handed to replay_transactions
MaxStart == 1    \* start_ts of a replayed transaction ranges over 0..MaxStart
MaxPayload == 1  \* most payload bytes in one bus exchange
Duration == 1    \* 'seconds' of sniff_for, in clock readings
MaxLog == 6      \* the model keeps the last MaxLog lines the thread logged

-----------------------------------------------------------------------------
(* Data structures: TxKey and Transaction *)

WRITE == 0
READ == 1

TxKey(a, d, p) == [addr |-> a, rw |-> d, data |-> p]

Transaction(ts, k) == [start_ts |-> ts, key |-> k]

\* Keys taken from the captures the macros were derived from.
KeyPrep == TxKey(3, WRITE, <<2, 33>>)
KeyAction == TxKey(5, WRITE, <<42, 200, 160>>)
KeyPoll == TxKey(3, READ, <<>>)

DiffKeys == {KeyPrep, KeyPoll}

Max(a, b) == IF a >= b THEN a ELSE b

\* All sequences over S of length at most n.
SeqUpTo(S, n) == UNION {[1..m -> S] : m \in 0..n}

-----------------------------------------------------------------------------
(* sorted(xs, key=lambda t: t.start_ts): Python's sort is stable, so        *)
(* elements with equal start_ts keep their relative order.                 *)

\* Mutant: the sort runs in descending order (reverse=True).
RECURSIVE InsertByTsDescending(_, _)
InsertByTsDescending(s, t) ==
    IF s = <<>> THEN <<t>>
    ELSE IF Head(s).start_ts >= t.start_ts
         THEN <<Head(s)>> \o InsertByTsDescending(Tail(s), t)
         ELSE <<t>> \o s

RECURSIVE InsertByTs(_, _)
InsertByTs(s, t) ==
    IF s = <<>> THEN <<t>>
    ELSE IF Head(s).start_ts <= t.start_ts
         THEN <<Head(s)>> \o InsertByTs(Tail(s), t)
         ELSE <<t>> \o s

\* Mutant: the capture is walked in list order, without the sort.
Unsorted(s) == s

RECURSIVE SortedByTs(_)
SortedByTs(s) ==
    IF s = <<>> THEN <<>>
    ELSE InsertByTs(SortedByTs(SubSeq(s, 1, Len(s) - 1)), s[Len(s)])

\* Counter([key(t) for t in xs])[k]
RECURSIVE CountKey(_, _)
CountKey(s, k) ==
    IF s = <<>> THEN 0
    ELSE (IF Head(s).key = k THEN 1 ELSE 0) + CountKey(Tail(s), k)

\* Mutant: the baseline count is not subtracted.
OverIgnoringBase(nw, bs, k) == CountKey(nw, k)

\* over[k] = max(0, new_counts[k] - base_counts.get(k, 0)); over.get(k, 0)
\* is 0 for a key that is not in new.
Over(nw, bs, k) ==
    IF CountKey(nw, k) = 0 THEN 0
    ELSE Max(0, CountKey(nw, k) - CountKey(bs, k))

\* Mutant: the walk keeps the last over[k] occurrences instead of the first.
RECURSIVE DiffWalkKeepLast(_, _, _, _)
DiffWalkKeepLast(rest, acc, nw, bs) ==
    IF rest = <<>> THEN acc
    ELSE LET t == Head(rest)
             k == t.key
         IN  IF CountKey(rest, k) <= Over(nw, bs, k)
             THEN DiffWalkKeepLast(Tail(rest), Append(acc, t), nw, bs)
             ELSE DiffWalkKeepLast(Tail(rest), acc, nw, bs)

\* The walk of multiset_difference over the sorted capture: 'acc' is the
\* list of results so far, and buckets[k] is the number of kept k's in it.
RECURSIVE DiffWalk(_, _, _, _)
DiffWalk(rest, acc, nw, bs) ==
    IF rest = <<>> THEN acc
    ELSE LET t == Head(rest)
             k == t.key
         IN  IF Over(nw, bs, k) > CountKey(acc, k)
             THEN DiffWalk(Tail(rest), Append(acc, t), nw, bs)
             ELSE DiffWalk(Tail(rest), acc, nw, bs)

multiset_difference(nw, bs) == DiffWalk(SortedByTs(nw), <<>>, nw, bs)

\* Mutant: the gaps are taken in list order, without the sort.
compute_intervals_unsorted(ts) ==
    IF ts = <<>> THEN <<>>
    ELSE [i \in 1..Len(ts) |->
             IF i = 1 THEN 0
             ELSE Max(0, ts[i].start_ts - ts[i - 1].start_ts)]

\* delays = [0.0] + [max(0.0, s[i].start_ts - s[i-1].start_ts) ...]
compute_intervals(ts) ==
    IF ts = <<>> THEN <<>>
    ELSE LET s == SortedByTs(ts)
         IN  [i \in 1..Len(s) |->
                 IF i = 1 THEN 0
                 ELSE Max(0, s[i].start_ts - s[i - 1].start_ts)]

-----------------------------------------------------------------------------
(* Specification of the diff stage: the two captures are the inputs, the    *)
(* actions are the calls of main().                                        *)

NewTxs == {Transaction(ts, k) : ts \in 0..MaxTs, k \in DiffKeys}
BaseTxs == {Transaction(0, k) : k \in DiffKeys}

\* No replay operation runs.
ReplayIdle ==
    /\ fn = "none"
    /\ rtxs = <<>>
    /\ rdelays = <<>>
    /\ macro = <<>>
    /\ rpc = "done"
    /\ idx = 0
    /\ bus = "none"
    /\ pause_event = FALSE
    /\ writes = <<>>
    /\ waited = 0
    /\ settles = 0
    /\ rlog = <<>>
    /\ outcome = "returned"

\* No sniffer thread runs.
ThreadIdle ==
    /\ paused_seen = FALSE
    /\ late_reads = 0
    /\ tlog = <<>>

\* No byte is read on its own.
ByteIdle == reads = <<>>

\* No capture runs and the bus is idle.
SniffIdle ==
    /\ ThreadIdle
    /\ ByteIdle
    /\ exch = [hdr |-> 0, data |-> <<>>, nack |-> FALSE]
    /\ wave = <<>>
    /\ scl = 1
    /\ sda = 1
    /\ stalled = FALSE
    /\ everStalled = FALSE
    /\ sampled = FALSE
    /\ now = 0
    /\ stop_flag = FALSE
    /\ spc = "returned"
    /\ ctx = "hdr"
    /\ nbits = 0
    /\ val = 0
    /\ bit = 0
    /\ start_ts = 0
    /\ addr = 0
    /\ rw = 0
    /\ payload = <<>>
    /\ out = <<>>

DiffInit ==
    /\ SniffIdle
    /\ new \in SeqUpTo(NewTxs, MaxNew)
    /\ base \in SeqUpTo(BaseTxs, MaxBase)
    /\ results = <<>>
    /\ txs = <<>>
    /\ delays = <<>>
    /\ dpc = "captured"
    /\ ReplayIdle

\* diffs = multiset_difference(cmd, base)
CallMultisetDifference ==
    /\ dpc = "captured"
    /\ results' = multiset_difference(new, base)
    /\ dpc' = "diffed"
    /\ UNCHANGED <<new, base, txs, delays>>
    /\ UNCHANGED notDiffVars

\* delays = compute_intervals(diffs)
CallComputeIntervals ==
    /\ dpc = "diffed"
    /\ txs' = results
    /\ delays' = compute_intervals(results)
    /\ dpc' = "timed"
    /\ UNCHANGED <<new, base, results>>
    /\ UNCHANGED notDiffVars

\* compute_intervals applied to a capture as it stands (any list).
CallComputeIntervalsOnCapture ==
    /\ dpc = "captured"
    /\ txs' = new
    /\ delays' = compute_intervals(new)
    /\ dpc' = "timed_capture"
    /\ UNCHANGED <<new, base, results>>
    /\ UNCHANGED notDiffVars

DiffNext ==
    \/ CallMultisetDifference
    \/ CallComputeIntervals
    \/ CallComputeIntervalsOnCapture

SpecDiff == DiffInit /\ [][DiffNext]_vars

-----------------------------------------------------------------------------
(* replay_transactions (ms8_sniff_replay.py) *)

ReplayKeys == {KeyPrep, KeyAction, KeyPoll}
ReplayTxs == {Transaction(ts, k) : ts \in 0..MaxStart, k \in ReplayKeys}

\* What the bus layer answers to one i2c_rdwr call.
WriteResults == {"ok", "OSError", "Exception"}

\* sorted(txs, key=lambda x: x.start_ts), the list the loop zips with delays
RT_Sorted == SortedByTs(rtxs)

\* Mutant: the delay is slept only before an entry that is written.
EntryDelayWritesOnly(t, dly) == IF t.key.rw = WRITE /\ dly > 0 THEN dly ELSE 0

\* if dly > 0: time.sleep(dly) -- the time slept for entry (t, dly)
EntryDelay(t, dly) == IF dly > 0 THEN dly ELSE 0

\* Mutant: a failed write leaves the loop.
RT_AfterWriteAbortOnError(res) == IF res = "ok" THEN "loop" ELSE "finally"

\* Where the loop goes after i2c_rdwr: both except clauses log and fall
\* through to the next iteration.
RT_AfterWrite(res) == "loop"

\* if len(txs) != len(delays): raise ValueError
RT_LengthMismatch ==
    /\ fn = "replay_transactions" /\ rpc = "start"
    /\ Len(rtxs) # Len(rdelays)
    /\ outcome' = "raised"
    /\ rpc' = "done"
    /\ UNCHANGED notReplayVars
    /\ UNCHANGED <<fn, rtxs, rdelays, macro, idx, bus, pause_event, writes,
                   waited, settles, rlog>>

\* if not txs: log("Nothing to replay."); return
RT_NothingToReplay ==
    /\ fn = "replay_transactions" /\ rpc = "start"
    /\ Len(rtxs) = Len(rdelays)
    /\ rtxs = <<>>
    /\ rlog' = Append(rlog, "Nothing to replay.")
    /\ outcome' = "returned"
    /\ rpc' = "done"
    /\ UNCHANGED notReplayVars
    /\ UNCHANGED <<fn, rtxs, rdelays, macro, idx, bus, pause_event, writes,
                   waited, settles>>

\* log(f"Opening /dev/i2c-{bus_num}...")
\* Mutant: the two checks before the open are missing.
RT_BeginUnchecked ==
    /\ fn = "replay_transactions" /\ rpc = "start"
    /\ rlog' = Append(rlog, "Opening")
    /\ rpc' = "open"
    /\ UNCHANGED notReplayVars
    /\ UNCHANGED <<fn, rtxs, rdelays, macro, idx, bus, pause_event, writes,
                   waited, settles, outcome>>

RT_Begin ==
    /\ fn = "replay_transactions" /\ rpc = "start"
    /\ Len(rtxs) = Len(rdelays)
    /\ rtxs # <<>>
    /\ rlog' = Append(rlog, "Opening")
    /\ rpc' = "open"
    /\ UNCHANGED notReplayVars
    /\ UNCHANGED <<fn, rtxs, rdelays, macro, idx, bus, pause_event, writes,
                   waited, settles, outcome>>

\* bus = SMBus(bus_num) succeeds
RT_OpenOk ==
    /\ fn = "replay_transactions" /\ rpc = "open"
    /\ bus' = "open"
    /\ rpc' = "loop"
    /\ UNCHANGED notReplayVars
    /\ UNCHANGED <<fn, rtxs, rdelays, macro, idx, pause_event, writes,
                   waited, settles, rlog, outcome>>

\* Mutant: the open failure is raised to the caller.
RT_OpenFailRaises ==
    /\ fn = "replay_transactions" /\ rpc = "open"
    /\ rlog' = Append(rlog, "Failed to open I2C bus")
    /\ outcome' = "raised"
    /\ rpc' = "done"
    /\ UNCHANGED notReplayVars
    /\ UNCHANGED <<fn, rtxs, rdelays, macro, idx, bus, pause_event, writes,
                   waited, settles>>

\* Mutant: the return after the failed open is missing.
RT_OpenFailFallsThrough ==
    /\ fn = "replay_transactions" /\ rpc = "open"
    /\ rlog' = Append(rlog, "Failed to open I2C bus")
    /\ rpc' = "loop"
    /\ UNCHANGED notReplayVars
    /\ UNCHANGED <<fn, rtxs, rdelays, macro, idx, bus, pause_event, writes,
                   waited, settles, outcome>>

\* bus = SMBus(bus_num) raises: log(f"Failed to open I2C bus: {e}"); return
RT_OpenFail ==
    /\ fn = "replay_transactions" /\ rpc = "open"
    /\ rlog' = Append(rlog, "Failed to open I2C bus")
    /\ outcome' = "returned"
    /\ rpc' = "done"
    /\ UNCHANGED notReplayVars
    /\ UNCHANGED <<fn, rtxs, rdelays, macro, idx, bus, pause_event, writes,
                   waited, settles>>

\* Next pair (t, dly) of the zip: if dly > 0: time.sleep(dly)
RT_Sleep ==
    /\ fn = "replay_transactions" /\ rpc = "loop"
    /\ idx < Len(rtxs)
    /\ waited' = waited + EntryDelay(RT_Sorted[idx + 1], rdelays[idx + 1])
    /\ rpc' = "dispatch"
    /\ UNCHANGED notReplayVars
    /\ UNCHANGED <<fn, rtxs, rdelays, macro, idx, bus, pause_event, writes,
                   settles, rlog, outcome>>

\* if t.key.rw != 0: log("Skip READ ..."); continue
RT_SkipRead ==
    /\ fn = "replay_transactions" /\ rpc = "dispatch"
    /\ RT_Sorted[idx + 1].key.rw # 0
    /\ rlog' = Append(rlog, "Skip READ")
    /\ idx' = idx + 1
    /\ rpc' = "loop"
    /\ UNCHANGED notReplayVars
    /\ UNCHANGED <<fn, rtxs, rdelays, macro, bus, pause_event, writes,
                   waited, settles, outcome>>

\* msg = i2c_msg.write(addr, payload); bus.i2c_rdwr(msg), with the result
\* logged by the try or by one of its except clauses
RT_Write ==
    /\ fn = "replay_transactions" /\ rpc = "dispatch"
    /\ RT_Sorted[idx + 1].key.rw = 0
    /\ \E res \in WriteResults :
          /\ writes' = Append(writes,
                 [entry |-> idx + 1,
                  addr |-> RT_Sorted[idx + 1].key.addr,
                  data |-> RT_Sorted[idx + 1].key.data,
                  waited |-> waited,
                  result |-> res])
          /\ rlog' = rlog \o <<"WRITE", IF res = "ok" THEN "result: OK" ELSE res>>
          /\ rpc' = RT_AfterWrite(res)
    /\ idx' = idx + 1
    /\ UNCHANGED notReplayVars
    /\ UNCHANGED <<fn, rtxs, rdelays, macro, bus, pause_event, waited,
                   settles, outcome>>

\* The zip is exhausted: the for loop ends.
RT_LoopEnd ==
    /\ fn = "replay_transactions" /\ rpc = "loop"
    /\ idx >= Len(rtxs)
    /\ rpc' = "finally"
    /\ UNCHANGED notReplayVars
    /\ UNCHANGED <<fn, rtxs, rdelays, macro, idx, bus, pause_event, writes,
                   waited, settles, rlog, outcome>>

\* finally: bus.close(); log("Replay done.")
RT_Finally ==
    /\ fn = "replay_transactions" /\ rpc = "finally"
    /\ bus' = "closed"
    /\ rlog' = Append(rlog, "Replay done.")
    /\ outcome' = "returned"
    /\ rpc' = "done"
    /\ UNCHANGED notReplayVars
    /\ UNCHANGED <<fn, rtxs, rdelays, macro, idx, pause_event, writes,
                   waited, settles>>

replay_transactions ==
    \/ RT_LengthMismatch
    \/ RT_NothingToReplay
    \/ RT_Begin
    \/ RT_OpenOk
    \/ RT_OpenFail
    \/ RT_Sleep
    \/ RT_SkipRead
    \/ RT_Write
    \/ RT_LoopEnd
    \/ RT_Finally

-----------------------------------------------------------------------------
(* send_macro (i2c_sniff_and_replay.py) *)

MacroEntry(a, d, ms) == [addr |-> a, data |-> d, delay_ms |-> ms]

VOL_UP_MACRO ==
    << MacroEntry(3, <<2, 33>>, 40),
       MacroEntry(5, <<42, 200, 160>>, 80),
       MacroEntry(32, <<69, 153, 40, 44, 216, 72, 240, 152, 80, 152>>, 0) >>

VOL_DOWN_MACRO ==
    << MacroEntry(3, <<2, 9, 7, 34>>, 40),
       MacroEntry(2, <<44, 202>>, 80) >>

Macros == {VOL_UP_MACRO, VOL_DOWN_MACRO}

\* Mutant: an except clause leaves the entry without its delay.
SM_AfterWriteSkipsDelayOnError(res) == IF res = "ok" THEN "delay" ELSE "loop"

\* Where the loop goes after i2c_rdwr: both except clauses print and fall
\* through to the delay of the entry.
SM_AfterWrite(res) == "delay"

\* pause_event.set()
SM_SetPause ==
    /\ fn = "send_macro" /\ rpc = "start"
    /\ pause_event' = TRUE
    /\ rpc' = "settle"
    /\ UNCHANGED notReplayVars
    /\ UNCHANGED <<fn, rtxs, rdelays, macro, idx, bus, writes, waited,
                   settles, rlog, outcome>>

\* time.sleep(0.02); print("Sending macro with ... writes...")
SM_Settle ==
    /\ fn = "send_macro" /\ rpc = "settle"
    /\ settles' = settles + 1
    /\ rlog' = Append(rlog, "Sending macro")
    /\ rpc' = "open"
    /\ UNCHANGED notReplayVars
    /\ UNCHANGED <<fn, rtxs, rdelays, macro, idx, bus, pause_event, writes,
                   waited, outcome>>

\* bus = SMBus(bus_num) succeeds
SM_OpenOk ==
    /\ fn = "send_macro" /\ rpc = "open"
    /\ bus' = "open"
    /\ rpc' = "loop"
    /\ UNCHANGED notReplayVars
    /\ UNCHANGED <<fn, rtxs, rdelays, macro, idx, pause_event, writes,
                   waited, settles, rlog, outcome>>

\* Mutant: the early return forgets pause_event.clear().
SM_OpenFailKeepsPause ==
    /\ fn = "send_macro" /\ rpc = "open"
    /\ rlog' = Append(rlog, "Failed to open i2c bus")
    /\ outcome' = "returned"
    /\ rpc' = "done"
    /\ UNCHANGED notReplayVars
    /\ UNCHANGED <<fn, rtxs, rdelays, macro, idx, bus, pause_event, writes,
                   waited, settles>>

\* bus = SMBus(bus_num) raises: print("Failed to open i2c bus ...");
\* pause_event.clear(); return
SM_OpenFail ==
    /\ fn = "send_macro" /\ rpc = "open"
    /\ rlog' = Append(rlog, "Failed to open i2c bus")
    /\ pause_event' = FALSE
    /\ outcome' = "returned"
    /\ rpc' = "done"
    /\ UNCHANGED notReplayVars
    /\ UNCHANGED <<fn, rtxs, rdelays, macro, idx, bus, writes, waited,
                   settles>>

\* msg = i2c_msg.write(addr, bytes(data)); bus.i2c_rdwr(msg), with the
\* result printed by the try or by one of its except clauses
SM_Write ==
    /\ fn = "send_macro" /\ rpc = "loop"
    /\ idx < Len(macro)
    /\ \E res \in WriteResults :
          /\ writes' = Append(writes,
                 [entry |-> idx + 1,
                  addr |-> macro[idx + 1].addr,
                  data |-> macro[idx + 1].data,
                  waited |-> waited,
                  result |-> res])
          /\ rlog' = Append(rlog, IF res = "ok" THEN "Sent" ELSE res)
          /\ rpc' = SM_AfterWrite(res)
    /\ UNCHANGED notReplayVars
    /\ UNCHANGED <<fn, rtxs, rdelays, macro, idx, bus, pause_event, waited,
                   settles, outcome>>

\* Mutant: the sniffer is resumed after every entry.
SM_DelayResumes ==
    /\ fn = "send_macro" /\ rpc = "delay"
    /\ waited' = waited + (IF macro[idx + 1].delay_ms # 0
                           THEN macro[idx + 1].delay_ms ELSE 0)
    /\ idx' = idx + 1
    /\ pause_event' = FALSE
    /\ rpc' = "loop"
    /\ UNCHANGED notReplayVars
    /\ UNCHANGED <<fn, rtxs, rdelays, macro, bus, writes,
                   settles, rlog, outcome>>

\* if delay_ms: time.sleep(delay_ms / 1000.0)
SM_Delay ==
    /\ fn = "send_macro" /\ rpc = "delay"
    /\ waited' = waited + (IF macro[idx + 1].delay_ms # 0
                           THEN macro[idx + 1].delay_ms ELSE 0)
    /\ idx' = idx + 1
    /\ rpc' = "loop"
    /\ UNCHANGED notReplayVars
    /\ UNCHANGED <<fn, rtxs, rdelays, macro, bus, pause_event, writes,
                   settles, rlog, outcome>>

\* The macro is exhausted: the for loop ends.
SM_LoopEnd ==
    /\ fn = "send_macro" /\ rpc = "loop"
    /\ idx >= Len(macro)
    /\ rpc' = "close"
    /\ UNCHANGED notReplayVars
    /\ UNCHANGED <<fn, rtxs, rdelays, macro, idx, bus, pause_event, writes,
                   waited, settles, rlog, outcome>>

\* Mutant: the finally clause does not close the bus.
SM_CloseSkipped ==
    /\ fn = "send_macro" /\ rpc = "close"
    /\ rpc' = "settle2"
    /\ UNCHANGED notReplayVars
    /\ UNCHANGED <<fn, rtxs, rdelays, macro, idx, bus, pause_event, writes,
                   waited, settles, rlog, outcome>>

\* finally: bus.close()
SM_Close ==
    /\ fn = "send_macro" /\ rpc = "close"
    /\ bus' = "closed"
    /\ rpc' = "settle2"
    /\ UNCHANGED notReplayVars
    /\ UNCHANGED <<fn, rtxs, rdelays, macro, idx, pause_event, writes,
                   waited, settles, rlog, outcome>>

\* finally: time.sleep(0.02)
SM_Settle2 ==
    /\ fn = "send_macro" /\ rpc = "settle2"
    /\ settles' = settles + 1
    /\ rpc' = "clear"
    /\ UNCHANGED notReplayVars
    /\ UNCHANGED <<fn, rtxs, rdelays, macro, idx, bus, pause_event, writes,
                   waited, rlog, outcome>>

\* finally: pause_event.clear(); print("Macro send complete; sniffer resumed.")
SM_Clear ==
    /\ fn = "send_macro" /\ rpc = "clear"
    /\ pause_event' = FALSE
    /\ rlog' = Append(rlog, "Macro send complete")
    /\ outcome' = "returned"
    /\ rpc' = "done"
    /\ UNCHANGED notReplayVars
    /\ UNCHANGED <<fn, rtxs, rdelays, macro, idx, bus, writes, waited,
                   settles>>

send_macro ==
    \/ SM_SetPause
    \/ SM_Settle
    \/ SM_OpenOk
    \/ SM_OpenFail
    \/ SM_Write
    \/ SM_Delay
    \/ SM_LoopEnd
    \/ SM_Close
    \/ SM_Settle2
    \/ SM_Clear

-----------------------------------------------------------------------------
(* Specification of the replay stage: one call of replay_transactions or   *)
(* of send_macro.                                                          *)

\* No diff is computed.
DiffIdle ==
    /\ new = <<>>
    /\ base = <<>>
    /\ results = <<>>
    /\ txs = <<>>
    /\ delays = <<>>
    /\ dpc = "idle"

\* The delays main() hands over are compute_intervals(diffs); the other two
\* lists are one too long and one too short.
DelaysFor(t) ==
    {compute_intervals(t), Append(compute_intervals(t), 0)}
        \cup (IF t = <<>> THEN {} ELSE {Tail(compute_intervals(t))})

ReplayInit ==
    /\ DiffIdle
    /\ SniffIdle
    /\ \/ /\ fn = "replay_transactions"
          /\ rtxs \in SeqUpTo(ReplayTxs, MaxTxs)
          /\ rdelays \in DelaysFor(rtxs)
          /\ macro = <<>>
       \/ /\ fn = "send_macro"
          /\ macro \in Macros
          /\ rtxs = <<>>
          /\ rdelays = <<>>
    /\ rpc = "start"
    /\ idx = 0
    /\ bus = "none"
    /\ pause_event = FALSE
    /\ writes = <<>>
    /\ waited = 0
    /\ settles = 0
    /\ rlog = <<>>
    /\ outcome = "running"

ReplayNext ==
    \/ replay_transactions
    \/ send_macro

SpecReplay == ReplayInit /\ [][ReplayNext]_vars

-----------------------------------------------------------------------------
(* The bus: a master that sends one exchange (start condition, address and *)
(* direction byte, payload bytes, each followed by an ack bit, stop        *)
(* condition) by changing one line at a time.                              *)

\* Address+direction bytes and payload bytes the master may send.
HeaderBytes == {6, 11}            \* 0x03 WRITE, 0x05 READ
PayloadBytes == {33, 200}         \* 0x21, 0xC8

Exchanges ==
    [hdr : HeaderBytes, data : SeqUpTo(PayloadBytes, MaxPayload), nack : BOOLEAN]

\* The key of the transaction an exchange carries.
ExchangeKey(e) == TxKey(e.hdr \div 2, e.hdr % 2, e.data)

\* Bit i (1 = most significant) of byte v
BitOf(v, i) == (v \div (2 ^ (8 - i))) % 2

\* The eight bits of v, most significant first, and the ack bit.
ByteFrame(v, ack) == [i \in 1..9 |-> IF i <= 9 - 1 THEN BitOf(v, i) ELSE ack]

\* All bits of the exchange; the last byte is not acknowledged when e.nack.
RECURSIVE DataFrames(_, _)
DataFrames(d, nack) ==
    IF d = <<>> THEN <<>>
    ELSE ByteFrame(Head(d), IF Len(d) = 1 /\ nack THEN 1 ELSE 0)
             \o DataFrames(Tail(d), nack)

ExchangeBits(e) ==
    ByteFrame(e.hdr, IF e.data = <<>> /\ e.nack THEN 1 ELSE 0)
        \o DataFrames(e.data, e.nack)

\* The line states <<scl, sda>> the master drives from the idle bus (both
\* lines high): the start condition (SDA falls, then SCL falls), for every
\* bit SDA set while SCL is low, SCL high, SCL low, and the stop condition
\* (SDA low, SCL rises, SDA rises).
Waveform(e) ==
    LET bits == ExchangeBits(e)
        n == Len(bits)
    IN  [k \in 1..(3 * n + 5) |->
            IF k = 1 THEN <<1, 0>>
            ELSE IF k = 2 THEN <<0, 0>>
            ELSE IF k = 3 * n + 3 THEN <<0, 0>>
            ELSE IF k = 3 * n + 4 THEN <<1, 0>>
            ELSE IF k = 3 * n + 5 THEN <<1, 1>>
            ELSE <<IF (k - 3) % 3 = 1 THEN 1 ELSE 0, bits[((k - 3) \div 3) + 1]>>]

\* The bus makes no line change for longer than a wait of the sniffer lasts.
Quiet == stalled \/ wave = <<>>

\* The next line state differs from the present one.
NextChanges == Head(wave) # <<scl, sda>>

\* The master drives the next line state; the sniffer samples at least once
\* between two changes of a line.
BusChange ==
    /\ wave # <<>>
    /\ ~stalled
    /\ NextChanges => sampled
    /\ scl' = Head(wave)[1]
    /\ sda' = Head(wave)[2]
    /\ wave' = Tail(wave)
    /\ sampled' = IF NextChanges THEN FALSE ELSE sampled
    /\ UNCHANGED <<exch, stalled, everStalled, now>>
    /\ UNCHANGED snifferVars
    /\ UNCHANGED notSniffVars

\* The master hangs before the exchange is over.
BusStall ==
    /\ wave # <<>>
    /\ ~stalled
    /\ stalled' = TRUE
    /\ everStalled' = TRUE
    /\ UNCHANGED <<exch, wave, scl, sda, sampled, now>>
    /\ UNCHANGED snifferVars
    /\ UNCHANGED notSniffVars

\* time.time() moves on.
Tick ==
    /\ now < Duration
    /\ now' = now + 1
    /\ UNCHANGED <<exch, wave, scl, sda, stalled, everStalled, sampled>>
    /\ UNCHANGED snifferVars
    /\ UNCHANGED notSniffVars

-----------------------------------------------------------------------------
(* I2CSniffer.sniff_for (ms8_sniff_replay.py).  Every pi.read is one step. *)

\* deadline = time.time() + seconds, with the call at time 0
deadline == Duration

\* addr = addr_rw >> 1
HeaderAddr(v) == v \div 2

\* rw = addr_rw & 1
HeaderRw(v) == v % 2

\* val = (val << 1) | (b & 1)
ShiftIn(v, b) == v * 2 + (b % 2)

\* out.append(Transaction(start_ts=start_ts, key=TxKey(addr, rw, tuple(payload))))
Emit(o, ts, a, d, p) == Append(o, Transaction(ts, TxKey(a, d, p)))

\* stop(): self._stop = True
Sniff_Stop ==
    /\ spc # "returned"
    /\ ~stop_flag
    /\ stop_flag' = TRUE
    /\ UNCHANGED <<spc, ctx, nbits, val, bit, start_ts, addr, rw, payload, out>>
    /\ UNCHANGED busVars
    /\ UNCHANGED notSniffVars

\* while time.time() < deadline and not self._stop: ... ; return out
Sniff_Return ==
    /\ spc = "scan"
    /\ ~(now < deadline /\ ~stop_flag)
    /\ spc' = "returned"
    /\ UNCHANGED <<stop_flag, ctx, nbits, val, bit, start_ts, addr, rw, payload, out>>
    /\ UNCHANGED busVars
    /\ UNCHANGED notSniffVars

\* Look for START, first half: self.pi.read(self.scl) == 1
Sniff_ScanScl ==
    /\ spc = "scan"
    /\ now < deadline /\ ~stop_flag
    /\ spc' = IF scl = 1 THEN "scan_sda" ELSE "scan"
    /\ sampled' = TRUE
    /\ UNCHANGED <<stop_flag, ctx, nbits, val, bit, start_ts, addr, rw, payload, out>>
    /\ UNCHANGED <<exch, wave, scl, sda, stalled, everStalled, now>>
    /\ UNCHANGED notSniffVars

\* Look for START, second half: self.pi.read(self.sda) == 0; on a START
\* start_ts = time.time() and _read_byte begins
Sniff_ScanSda ==
    /\ spc = "scan_sda"
    /\ IF sda = 0
       THEN /\ start_ts' = now
            /\ ctx' = "hdr"
            /\ nbits' = 0
            /\ val' = 0
            /\ spc' = "wait_hi"
       ELSE /\ spc' = "scan"
            /\ UNCHANGED <<start_ts, ctx, nbits, val>>
    /\ sampled' = TRUE
    /\ UNCHANGED <<stop_flag, bit, addr, rw, payload, out>>
    /\ UNCHANGED <<exch, wave, scl, sda, stalled, everStalled, now>>
    /\ UNCHANGED notSniffVars

\* Mutant: a header that cannot be read ends the capture (break for continue).
ByteFailedEndsCapture ==
    /\ spc' = IF ctx = "hdr" THEN "returned" ELSE "scan"
    /\ out' = IF ctx = "hdr" THEN out ELSE Emit(out, start_ts, addr, rw, payload)
    /\ UNCHANGED <<ctx, nbits, val, bit, start_ts, addr, rw, payload>>

\* _read_byte returned None.  For the header: continue.  For a payload
\* byte: break, and the transaction is appended with the payload so far.
ByteFailed ==
    /\ spc' = "scan"
    /\ out' = IF ctx = "hdr" THEN out ELSE Emit(out, start_ts, addr, rw, payload)
    /\ UNCHANGED <<ctx, nbits, val, bit, start_ts, addr, rw, payload>>

\* _read_byte returned (val, ack).  For the header: addr, rw and an empty
\* payload are set.  For a payload byte: payload.append(val).
ByteRead ==
    /\ IF ctx = "hdr"
       THEN /\ addr' = HeaderAddr(val)
            /\ rw' = HeaderRw(val)
            /\ payload' = <<>>
       ELSE /\ payload' = Append(payload, val)
            /\ UNCHANGED <<addr, rw>>
    /\ spc' = "stop_scl"
    /\ UNCHANGED <<ctx, val, start_ts, out>>

\* _wait_level(scl, 1): the time is up before the level is read
Sniff_WaitHiTimeout ==
    /\ spc = "wait_hi"
    /\ Quiet
    /\ ByteFailed
    /\ UNCHANGED stop_flag
    /\ UNCHANGED busVars
    /\ UNCHANGED notSniffVars

\* _wait_level(scl, 1): one turn of the polling loop
Sniff_WaitHi ==
    /\ spc = "wait_hi"
    /\ IF stop_flag
       THEN /\ ByteFailed
            /\ UNCHANGED sampled
       ELSE /\ spc' = IF scl = 1 THEN "sample" ELSE "wait_hi"
            /\ sampled' = TRUE
            /\ UNCHANGED <<ctx, nbits, val, bit, start_ts, addr, rw, payload, out>>
    /\ UNCHANGED stop_flag
    /\ UNCHANGED <<exch, wave, scl, sda, stalled, everStalled, now>>
    /\ UNCHANGED notSniffVars

\* bit = self.pi.read(self.sda)
Sniff_Sample ==
    /\ spc = "sample"
    /\ bit' = sda
    /\ spc' = "wait_lo"
    /\ sampled' = TRUE
    /\ UNCHANGED <<stop_flag, ctx, nbits, val, start_ts, addr, rw, payload, out>>
    /\ UNCHANGED <<exch, wave, scl, sda, stalled, everStalled, now>>
    /\ UNCHANGED notSniffVars

\* Mutant: _wait_level has no time limit, the loop goes round once more.
Sniff_WaitLoNoLimit ==
    /\ spc = "wait_lo"
    /\ Quiet
    /\ UNCHANGED snifferVars
    /\ UNCHANGED busVars
    /\ UNCHANGED notSniffVars

\* _wait_level(scl, 0): the time is up before the level is read
Sniff_WaitLoTimeout ==
    /\ spc = "wait_lo"
    /\ Quiet
    /\ ByteFailed
    /\ UNCHANGED stop_flag
    /\ UNCHANGED busVars
    /\ UNCHANGED notSniffVars

\* _wait_level(scl, 0): one turn of the polling loop; when the level is
\* read _read_bit returns the bit, which _read_byte shifts into val (bits 1
\* to 8) or returns as the ack (bit 9)
Sniff_WaitLo ==
    /\ spc = "wait_lo"
    /\ IF stop_flag
       THEN /\ ByteFailed
            /\ UNCHANGED sampled
       ELSE /\ sampled' = TRUE
            /\ IF scl # 0
               THEN UNCHANGED <<spc, ctx, nbits, val, bit, start_ts, addr, rw,
                                payload, out>>
               ELSE IF nbits < 8
               THEN /\ val' = ShiftIn(val, bit)
                    /\ nbits' = nbits + 1
                    /\ spc' = "wait_hi"
                    /\ UNCHANGED <<ctx, bit, start_ts, addr, rw, payload, out>>
               ELSE /\ ByteRead
                    /\ UNCHANGED <<nbits, bit>>
    /\ UNCHANGED stop_flag
    /\ UNCHANGED <<exch, wave, scl, sda, stalled, everStalled, now>>
    /\ UNCHANGED notSniffVars

\* _read_byte begins for a payload byte
NextPayloadByte ==
    /\ ctx' = "payload"
    /\ nbits' = 0
    /\ val' = 0
    /\ spc' = "wait_hi"
    /\ UNCHANGED out

\* Read until STOP, first half: self.pi.read(self.scl) == 1
Sniff_StopScl ==
    /\ spc = "stop_scl"
    /\ IF scl = 1
       THEN /\ spc' = "stop_sda"
            /\ UNCHANGED <<ctx, nbits, val, out>>
       ELSE NextPayloadByte
    /\ sampled' = TRUE
    /\ UNCHANGED <<stop_flag, bit, start_ts, addr, rw, payload>>
    /\ UNCHANGED <<exch, wave, scl, sda, stalled, everStalled, now>>
    /\ UNCHANGED notSniffVars

\* Read until STOP, second half: self.pi.read(self.sda) == 1; on a STOP
\* break, and the transaction is appended
Sniff_StopSda ==
    /\ spc = "stop_sda"
    /\ IF sda = 1
       THEN /\ out' = Emit(out, start_ts, addr, rw, payload)
            /\ spc' = "scan"
            /\ UNCHANGED <<ctx, nbits, val>>
       ELSE NextPayloadByte
    /\ sampled' = TRUE
    /\ UNCHANGED <<stop_flag, bit, start_ts, addr, rw, payload>>
    /\ UNCHANGED <<exch, wave, scl, sda, stalled, everStalled, now>>
    /\ UNCHANGED notSniffVars

sniff_for ==
    \/ Sniff_Return
    \/ Sniff_ScanScl
    \/ Sniff_ScanSda
    \/ Sniff_WaitHiTimeout
    \/ Sniff_WaitHi
    \/ Sniff_Sample
    \/ Sniff_WaitLoTimeout
    \/ Sniff_WaitLo
    \/ Sniff_StopScl
    \/ Sniff_StopSda

-----------------------------------------------------------------------------
(* Specification of a capture: one call of sniff_for while the master      *)
(* sends one exchange.                                                     *)

SniffInit ==
    /\ DiffIdle
    /\ ReplayIdle
    /\ ThreadIdle
    /\ ByteIdle
    /\ exch \in Exchanges
    /\ wave = Waveform(exch)
    /\ scl = 1
    /\ sda = 1
    /\ stalled = FALSE
    /\ everStalled = FALSE
    /\ sampled = FALSE
    /\ now = 0
    /\ stop_flag = FALSE
    /\ spc = "scan"
    /\ ctx = "hdr"
    /\ nbits = 0
    /\ val = 0
    /\ bit = 0
    /\ start_ts = 0
    /\ addr = 0
    /\ rw = 0
    /\ payload = <<>>
    /\ out = <<>>

SniffNext ==
    \/ BusChange
    \/ Tick
    \/ sniff_for

SpecSniff == SniffInit /\ [][SniffNext]_vars

-----------------------------------------------------------------------------
(* The sniffer thread I2CSniffer.run (i2c_sniff_and_replay.py) beside the   *)
(* main thread, which calls send_macro and then stop().  Every test of the  *)
(* events and every pi.read is one step of the thread.                      *)

LogLine(e, a) == [ev |-> e, arg |-> a]

\* self.log(...), once for every line of 'lines'
Logged(l, lines) ==
    LET all == l \o lines
    IN  IF Len(all) > MaxLog
        THEN SubSeq(all, Len(all) - MaxLog + 1, Len(all))
        ELSE all

\* The master drives the next line state, whether the thread looks or not.
BusRun ==
    /\ wave # <<>>
    /\ ~stalled
    /\ scl' = Head(wave)[1]
    /\ sda' = Head(wave)[2]
    /\ wave' = Tail(wave)
    /\ UNCHANGED <<exch, stalled, everStalled, sampled, now>>
    /\ UNCHANGED snifferVars
    /\ UNCHANGED threadVars
    /\ UNCHANGED notThreadVars

\* main, finally: sniffer.stop(), after the macro was sent
Thread_Stop ==
    /\ rpc = "done"
    /\ spc # "ended"
    /\ ~stop_flag
    /\ stop_flag' = TRUE
    /\ UNCHANGED <<spc, ctx, nbits, val, bit, start_ts, addr, rw, payload, out>>
    /\ UNCHANGED busVars
    /\ UNCHANGED threadVars
    /\ UNCHANGED notThreadVars

\* A pi.read by the thread, counted when it is made while pause is set.
CountRead == late_reads' = IF pause_event THEN late_reads + 1 ELSE late_reads

\* finally: self.log("Sniffer cleaning up."); self.logfile.close()
CleanUp(lines) ==
    /\ tlog' = Logged(tlog, lines \o <<LogLine("Sniffer cleaning up.", 0)>>)
    /\ spc' = "ended"

\* read_byte begins: val = 0, for _ in range(8)
BeginByte(c) ==
    /\ ctx' = c
    /\ nbits' = 0
    /\ val' = 0
    /\ spc' = "wfe_hi"

\* Mutant: the pause branch sleeps but does not continue.
Run_TopPauseFallsThrough ==
    /\ spc = "run_top"
    /\ IF now >= Duration
       THEN /\ CleanUp(<<LogLine("Sniffer duration elapsed, stopping.", 0)>>)
            /\ UNCHANGED paused_seen
       ELSE IF stop_flag
       THEN /\ CleanUp(<<>>)
            /\ UNCHANGED paused_seen
       ELSE /\ paused_seen' = pause_event
            /\ spc' = "run_scl"
            /\ UNCHANGED tlog
    /\ UNCHANGED <<stop_flag, ctx, nbits, val, bit, start_ts, addr, rw, payload, out>>
    /\ UNCHANGED late_reads
    /\ UNCHANGED busVars
    /\ UNCHANGED notThreadVars

\* Top of the while loop of run: if the duration has elapsed log it and
\* break; if the stop event is set break; if the pause event is set sleep
\* 0.01 s and continue
Run_Top ==
    /\ spc = "run_top"
    /\ IF now >= Duration
       THEN /\ CleanUp(<<LogLine("Sniffer duration elapsed, stopping.", 0)>>)
            /\ UNCHANGED paused_seen
       ELSE IF stop_flag
       THEN /\ CleanUp(<<>>)
            /\ UNCHANGED paused_seen
       ELSE IF pause_event
       THEN /\ paused_seen' = TRUE
            /\ UNCHANGED <<spc, tlog>>
       ELSE /\ paused_seen' = FALSE
            /\ spc' = "run_scl"
            /\ UNCHANGED tlog
    /\ UNCHANGED <<stop_flag, ctx, nbits, val, bit, start_ts, addr, rw, payload, out>>
    /\ UNCHANGED late_reads
    /\ UNCHANGED busVars
    /\ UNCHANGED notThreadVars

\* Wait for START, first half: self.pi.read(self.scl) == 1
Run_ScanScl ==
    /\ spc = "run_scl"
    /\ CountRead
    /\ spc' = IF scl = 1 THEN "run_sda" ELSE "run_top"
    /\ UNCHANGED <<stop_flag, ctx, nbits, val, bit, start_ts, addr, rw, payload, out>>
    /\ UNCHANGED <<paused_seen, tlog>>
    /\ UNCHANGED busVars
    /\ UNCHANGED notThreadVars

\* Wait for START, second half: self.pi.read(self.sda) == 0; on a START
\* log "START detected" and read_byte begins
Run_ScanSda ==
    /\ spc = "run_sda"
    /\ CountRead
    /\ IF sda = 0
       THEN /\ tlog' = Logged(tlog, <<LogLine("START detected", 0)>>)
            /\ BeginByte("hdr")
       ELSE /\ spc' = "run_top"
            /\ UNCHANGED <<tlog, ctx, nbits, val>>
    /\ UNCHANGED <<stop_flag, bit, start_ts, addr, rw, payload, out>>
    /\ UNCHANGED paused_seen
    /\ UNCHANGED busVars
    /\ UNCHANGED notThreadVars

\* Mutant: wait_for_edge tests the pause event before the stop event.
Wfe_PollPauseFirst ==
    /\ spc \in {"wfe_hi", "wfe_lo"}
    /\ IF pause_event
       THEN /\ paused_seen' = TRUE
            /\ UNCHANGED <<spc, tlog>>
       ELSE IF stop_flag
       THEN /\ CleanUp(<<LogLine("Sniffer exception", 0)>>)
            /\ UNCHANGED paused_seen
       ELSE /\ paused_seen' = FALSE
            /\ spc' = IF spc = "wfe_hi" THEN "wfe_hi_read" ELSE "wfe_lo_read"
            /\ UNCHANGED tlog
    /\ UNCHANGED <<stop_flag, ctx, nbits, val, bit, start_ts, addr, rw, payload, out>>
    /\ UNCHANGED late_reads
    /\ UNCHANGED busVars
    /\ UNCHANGED notThreadVars

\* Mutant: wait_for_edge does not look at pause_event.
Wfe_PollIgnoresPause ==
    /\ spc \in {"wfe_hi", "wfe_lo"}
    /\ IF stop_flag
       THEN /\ CleanUp(<<LogLine("Sniffer exception", 0)>>)
            /\ UNCHANGED paused_seen
       ELSE /\ paused_seen' = FALSE
            /\ spc' = IF spc = "wfe_hi" THEN "wfe_hi_read" ELSE "wfe_lo_read"
            /\ UNCHANGED tlog
    /\ UNCHANGED <<stop_flag, ctx, nbits, val, bit, start_ts, addr, rw, payload, out>>
    /\ UNCHANGED late_reads
    /\ UNCHANGED busVars
    /\ UNCHANGED notThreadVars

\* wait_for_edge, one turn of its loop up to the read: if the stop event is
\* set raise RuntimeError, which run catches (except Exception) and logs
\* before it cleans up; if the pause event is set sleep 0.001 s, renew the
\* deadline and continue
Wfe_Poll ==
    /\ spc \in {"wfe_hi", "wfe_lo"}
    /\ IF stop_flag
       THEN /\ CleanUp(<<LogLine("Sniffer exception", 0)>>)
            /\ UNCHANGED paused_seen
       ELSE IF pause_event
       THEN /\ paused_seen' = TRUE
            /\ UNCHANGED <<spc, tlog>>
       ELSE /\ paused_seen' = FALSE
            /\ spc' = IF spc = "wfe_hi" THEN "wfe_hi_read" ELSE "wfe_lo_read"
            /\ UNCHANGED tlog
    /\ UNCHANGED <<stop_flag, ctx, nbits, val, bit, start_ts, addr, rw, payload, out>>
    /\ UNCHANGED late_reads
    /\ UNCHANGED busVars
    /\ UNCHANGED notThreadVars

\* wait_for_edge: time.time() > deadline, return False; read_bit raises
\* TimeoutError; run logs it and continues (header) or breaks (payload)
Wfe_Timeout ==
    /\ spc \in {"wfe_hi", "wfe_lo"}
    /\ ~stop_flag
    /\ ~pause_event
    /\ Quiet
    /\ paused_seen' = FALSE
    /\ tlog' = Logged(tlog, <<LogLine(IF ctx = "hdr"
                                      THEN "Byte read timeout after START"
                                      ELSE "Byte read timeout within transaction",
                                      0)>>)
    /\ spc' = "run_top"
    /\ UNCHANGED <<stop_flag, ctx, nbits, val, bit, start_ts, addr, rw, payload, out>>
    /\ UNCHANGED late_reads
    /\ UNCHANGED busVars
    /\ UNCHANGED notThreadVars

\* wait_for_edge(self.scl, 1): self.pi.read(pin) == level
Wfe_HiRead ==
    /\ spc = "wfe_hi_read"
    /\ CountRead
    /\ spc' = IF scl = 1 THEN "read_sample" ELSE "wfe_hi"
    /\ UNCHANGED <<stop_flag, ctx, nbits, val, bit, start_ts, addr, rw, payload, out>>
    /\ UNCHANGED <<paused_seen, tlog>>
    /\ UNCHANGED busVars
    /\ UNCHANGED notThreadVars

\* read_bit: bit = self.pi.read(self.sda)
Read_Sample ==
    /\ spc = "read_sample"
    /\ CountRead
    /\ bit' = sda
    /\ spc' = "wfe_lo"
    /\ UNCHANGED <<stop_flag, ctx, nbits, val, start_ts, addr, rw, payload, out>>
    /\ UNCHANGED <<paused_seen, tlog>>
    /\ UNCHANGED busVars
    /\ UNCHANGED notThreadVars

\* wait_for_edge(self.scl, 0): self.pi.read(pin) == level; then read_bit
\* returns the bit and read_byte shifts it into val (bits 1 to 8) or returns
\* (val, ack) (bit 9), which run logs as the header or as a data byte
Wfe_LoRead ==
    /\ spc = "wfe_lo_read"
    /\ CountRead
    /\ IF scl # 0
       THEN /\ spc' = "wfe_lo"
            /\ UNCHANGED <<ctx, nbits, val, addr, rw, tlog>>
       ELSE IF nbits < 8
       THEN /\ val' = ShiftIn(val, bit)
            /\ nbits' = nbits + 1
            /\ spc' = "wfe_hi"
            /\ UNCHANGED <<ctx, addr, rw, tlog>>
       ELSE /\ IF ctx = "hdr"
               THEN /\ addr' = HeaderAddr(val)
                    /\ rw' = HeaderRw(val)
                    /\ tlog' = Logged(tlog, <<LogLine("Master initiated transaction", val)>>)
               ELSE /\ tlog' = Logged(tlog, <<LogLine("Data", val)>>)
                    /\ UNCHANGED <<addr, rw>>
            /\ spc' = "pl_pause"
            /\ UNCHANGED <<ctx, nbits, val>>
    /\ UNCHANGED <<stop_flag, bit, start_ts, payload, out>>
    /\ UNCHANGED paused_seen
    /\ UNCHANGED busVars
    /\ UNCHANGED notThreadVars

\* Mutant: the payload loop does not look at pause_event.
Pl_PauseIgnored ==
    /\ spc = "pl_pause"
    /\ paused_seen' = FALSE
    /\ spc' = "pl_scl"
    /\ UNCHANGED <<stop_flag, ctx, nbits, val, bit, start_ts, addr, rw, payload, out>>
    /\ UNCHANGED <<late_reads, tlog>>
    /\ UNCHANGED busVars
    /\ UNCHANGED notThreadVars

\* Payload loop: if self.pause_event.is_set(): break
Pl_Pause ==
    /\ spc = "pl_pause"
    /\ IF pause_event
       THEN /\ paused_seen' = TRUE
            /\ spc' = "run_top"
       ELSE /\ paused_seen' = FALSE
            /\ spc' = "pl_scl"
    /\ UNCHANGED <<stop_flag, ctx, nbits, val, bit, start_ts, addr, rw, payload, out>>
    /\ UNCHANGED <<late_reads, tlog>>
    /\ UNCHANGED busVars
    /\ UNCHANGED notThreadVars

\* Payload loop, stop condition, first half: self.pi.read(self.scl) == 1
Pl_StopScl ==
    /\ spc = "pl_scl"
    /\ CountRead
    /\ IF scl = 1
       THEN /\ spc' = "pl_sda"
            /\ UNCHANGED <<ctx, nbits, val>>
       ELSE BeginByte("payload")
    /\ UNCHANGED <<stop_flag, bit, start_ts, addr, rw, payload, out>>
    /\ UNCHANGED <<paused_seen, tlog>>
    /\ UNCHANGED busVars
    /\ UNCHANGED notThreadVars

\* Payload loop, stop condition, second half: self.pi.read(self.sda) == 1;
\* on a STOP log "STOP detected" and break
Pl_StopSda ==
    /\ spc = "pl_sda"
    /\ CountRead
    /\ IF sda = 1
       THEN /\ tlog' = Logged(tlog, <<LogLine("STOP detected", 0)>>)
            /\ spc' = "run_top"
            /\ UNCHANGED <<ctx, nbits, val>>
       ELSE /\ BeginByte("payload")
            /\ UNCHANGED tlog
    /\ UNCHANGED <<stop_flag, bit, start_ts, addr, rw, payload, out>>
    /\ UNCHANGED paused_seen
    /\ UNCHANGED busVars
    /\ UNCHANGED notThreadVars

run ==
    \/ Run_Top
    \/ Run_ScanScl
    \/ Run_ScanSda
    \/ Wfe_Poll
    \/ Wfe_Timeout
    \/ Wfe_HiRead
    \/ Read_Sample
    \/ Wfe_LoRead
    \/ Pl_Pause
    \/ Pl_StopScl
    \/ Pl_StopSda

-----------------------------------------------------------------------------
(* Specification of the interactive tool: the sniffer thread runs while    *)
(* the master sends one exchange and the main thread sends one macro       *)
(* (the user typed 'd').                                                   *)

\* The exchange on the bus when the macro is asked for.
ThreadExchanges == {[hdr |-> 6, data |-> <<>>, nack |-> FALSE]}

ThreadInit ==
    /\ DiffIdle
    /\ fn = "send_macro"
    /\ macro = VOL_DOWN_MACRO
    /\ rtxs = <<>>
    /\ rdelays = <<>>
    /\ rpc = "start"
    /\ idx = 0
    /\ bus = "none"
    /\ pause_event = FALSE
    /\ writes = <<>>
    /\ waited = 0
    /\ settles = 0
    /\ rlog = <<>>
    /\ outcome = "running"
    /\ exch \in ThreadExchanges
    /\ wave = Waveform(exch)
    /\ scl = 1
    /\ sda = 1
    /\ stalled = FALSE
    /\ everStalled = FALSE
    /\ sampled = FALSE
    /\ now = 0
    /\ stop_flag = FALSE
    /\ spc = "run_top"
    /\ ctx = "hdr"
    /\ nbits = 0
    /\ val = 0
    /\ bit = 0
    /\ start_ts = 0
    /\ addr = 0
    /\ rw = 0
    /\ payload = <<>>
    /\ out = <<>>
    /\ ThreadIdle
    /\ ByteIdle

ThreadNext ==
    \/ BusRun
    \/ Thread_Stop
    \/ run
    \/ send_macro

SpecThread == ThreadInit /\ [][ThreadNext]_vars

-----------------------------------------------------------------------------
(* Specification of a capture that can be cut short: while sniff_for runs  *)
(* the master may hang, stop() may be called and the duration may elapse.  *)

CaptureNext ==
    \/ BusChange
    \/ BusStall
    \/ Tick
    \/ Sniff_Stop
    \/ sniff_for

SpecCapture == SniffInit /\ [][CaptureNext]_vars

\* A capture without a duration running out: it ends by stop() only.
HangNext ==
    \/ BusChange
    \/ BusStall
    \/ Sniff_Stop
    \/ sniff_for

SpecHang == SniffInit /\ [][HangNext]_vars

-----------------------------------------------------------------------------
(* _read_byte (ms8_sniff_replay.py) and read_byte (i2c_sniff_and_replay.py)*)
(* as a function of what the nine bit reads return, followed by the header *)
(* decoding of sniff_for / run.                                            *)

\* _read_bit returned None (a wait ran out); read_bit raised TimeoutError
NoBit == 2

\* What one bit read can give: pi.read(sda), 0 or 1, or no bit
BitResults == {0, 1, NoBit}

\* Mutant: the bit is or-ed in without the shift.
ReadByte_BitNoShift ==
    /\ spc = "read_byte"
    /\ nbits < 8
    /\ IF reads[nbits + 1] = NoBit
       THEN /\ spc' = "byte_none"
            /\ UNCHANGED <<val, nbits>>
       ELSE /\ val' = IF val % 2 = 1 THEN val ELSE val + (reads[nbits + 1] % 2)
            /\ nbits' = nbits + 1
            /\ UNCHANGED spc
    /\ UNCHANGED <<stop_flag, ctx, bit, start_ts, addr, rw, payload, out>>
    /\ UNCHANGED busVars
    /\ UNCHANGED <<diffVars, replayVars, threadVars, byteVars>>

\* for _ in range(8): b = self._read_bit(); if b is None: return None;
\* val = (val << 1) | (b & 1)
ReadByte_Bit ==
    /\ spc = "read_byte"
    /\ nbits < 8
    /\ IF reads[nbits + 1] = NoBit
       THEN /\ spc' = "byte_none"
            /\ UNCHANGED <<val, nbits>>
       ELSE /\ val' = ShiftIn(val, reads[nbits + 1])
            /\ nbits' = nbits + 1
            /\ UNCHANGED spc
    /\ UNCHANGED <<stop_flag, ctx, bit, start_ts, addr, rw, payload, out>>
    /\ UNCHANGED busVars
    /\ UNCHANGED <<diffVars, replayVars, threadVars, byteVars>>

\* ack = self._read_bit(); if ack is None: return None; return val, ack
ReadByte_Ack ==
    /\ spc = "read_byte"
    /\ nbits = 8
    /\ IF reads[9] = NoBit
       THEN /\ spc' = "byte_none"
            /\ UNCHANGED bit
       ELSE /\ bit' = reads[9]
            /\ spc' = "byte_read"
    /\ UNCHANGED <<stop_flag, ctx, nbits, val, start_ts, addr, rw, payload, out>>
    /\ UNCHANGED busVars
    /\ UNCHANGED <<diffVars, replayVars, threadVars, byteVars>>

\* addr_rw, ack = hdr; addr = addr_rw >> 1; rw = addr_rw & 1
Header_Decode ==
    /\ spc = "byte_read"
    /\ addr' = HeaderAddr(val)
    /\ rw' = HeaderRw(val)
    /\ spc' = "hdr_done"
    /\ UNCHANGED <<stop_flag, ctx, nbits, val, bit, start_ts, payload, out>>
    /\ UNCHANGED busVars
    /\ UNCHANGED <<diffVars, replayVars, threadVars, byteVars>>

ByteInit ==
    /\ DiffIdle
    /\ ReplayIdle
    /\ ThreadIdle
    /\ reads \in [1..9 -> BitResults]
    /\ exch = [hdr |-> 0, data |-> <<>>, nack |-> FALSE]
    /\ wave = <<>>
    /\ scl = 1
    /\ sda = 1
    /\ stalled = FALSE
    /\ everStalled = FALSE
    /\ sampled = FALSE
    /\ now = 0
    /\ stop_flag = FALSE
    /\ spc = "read_byte"
    /\ ctx = "hdr"
    /\ nbits = 0
    /\ val = 0
    /\ bit = 0
    /\ start_ts = 0
    /\ addr = 0
    /\ rw = 0
    /\ payload = <<>>
    /\ out = <<>>

ByteNext ==
    \/ ReadByte_Bit
    \/ ReadByte_Ack
    \/ Header_Decode

SpecByte == ByteInit /\ [][ByteNext]_vars

-----------------------------------------------------------------------------
(* Specifications of a sniffer left to run: sniff_for, or the thread's     *)
(* run, with a duration, while the master sends an exchange and may hang   *)
(* at any point and stop() may be called at any time.  In SpecLive the     *)
(* pause event is never set; in SpecStop the holder of the thread's pause  *)
(* event may set it at any time and never clears it.  The sniffer's thread *)
(* is scheduled again and again, and the time limit of a wait is reached   *)
(* when the wait goes on.                                                  *)

\* The positions of sniff_for and of run at which the call is over.
Finished == spc \in {"returned", "ended"}

\* The sniffer that runs is the thread of i2c_sniff_and_replay.py.
Threaded ==
    spc \in {"run_top", "run_scl", "run_sda", "wfe_hi", "wfe_hi_read",
             "read_sample", "wfe_lo", "wfe_lo_read", "pl_pause", "pl_scl",
             "pl_sda", "ended"}

\* stop(): self._stop = True (ms8_sniff_replay.py), self._stop_event.set()
\* (i2c_sniff_and_replay.py)
Stop_Call ==
    /\ ~Finished
    /\ ~stop_flag
    /\ stop_flag' = TRUE
    /\ UNCHANGED <<spc, ctx, nbits, val, bit, start_ts, addr, rw, payload, out>>
    /\ UNCHANGED busVars
    /\ UNCHANGED threadVars
    /\ UNCHANGED notThreadVars

\* pause_event.set() by the thread that holds the event
Pause_Set ==
    /\ Threaded
    /\ ~Finished
    /\ ~pause_event
    /\ pause_event' = TRUE
    /\ UNCHANGED <<fn, rtxs, rdelays, macro, rpc, idx, bus, writes, waited,
                   settles, rlog, outcome>>
    /\ UNCHANGED notReplayVars

\* The exchange on the bus while the sniffer is left to run.
LiveExchanges == {[hdr |-> 6, data |-> <<>>, nack |-> FALSE]}

LiveInit ==
    /\ DiffIdle
    /\ ReplayIdle
    /\ ThreadIdle
    /\ ByteIdle
    /\ exch \in LiveExchanges
    /\ wave = Waveform(exch)
    /\ scl = 1
    /\ sda = 1
    /\ stalled = FALSE
    /\ everStalled = FALSE
    /\ sampled = FALSE
    /\ now = 0
    /\ stop_flag = FALSE
    /\ spc \in {"scan", "run_top"}
    /\ ctx = "hdr"
    /\ nbits = 0
    /\ val = 0
    /\ bit = 0
    /\ start_ts = 0
    /\ addr = 0
    /\ rw = 0
    /\ payload = <<>>
    /\ out = <<>>

LiveNext ==
    \/ BusRun
    \/ BusStall
    \/ Tick
    \/ Stop_Call
    \/ sniff_for
    \/ run

\* The sniffer's thread keeps being scheduled; a wait that goes on reaches
\* its time limit, since every turn of its loop sleeps.
LiveFairness ==
    /\ WF_vars(sniff_for)
    /\ WF_vars(run)
    /\ SF_vars(Sniff_WaitHiTimeout)
    /\ SF_vars(Sniff_WaitLoTimeout)
    /\ SF_vars(Wfe_Timeout)

SpecLive == LiveInit /\ [][LiveNext]_vars /\ LiveFairness

StopInit ==
    /\ LiveInit
    /\ spc = "run_top"

StopNext ==
    \/ BusRun
    \/ BusStall
    \/ Stop_Call
    \/ Pause_Set
    \/ run

SpecStop == StopInit /\ [][StopNext]_vars /\ WF_vars(run)

-----------------------------------------------------------------------------
(* The standalone sniffer, I2CSniffer.run of sniffer.py.  Every pi.read is *)
(* one step; start_time is the time 0 of the model and self.duration is    *)
(* Duration.  The lines it logs go to tlog.                                *)

\* read_byte begins: val = 0, for _ in range(8)
Sa_BeginByte(c) ==
    /\ ctx' = c
    /\ nbits' = 0
    /\ val' = 0
    /\ spc' = "sa_hi"

\* finally: self.cleanup(), after the lines logged on the way out
Sa_CleanUp(lines) ==
    /\ tlog' = Logged(tlog, lines)
    /\ spc' = "sa_done"

\* while time.time() - start_time < self.duration: ... ; finally: cleanup
Sa_Top ==
    /\ spc = "sa_top"
    /\ IF now < Duration
       THEN /\ spc' = "sa_scl"
            /\ UNCHANGED tlog
       ELSE Sa_CleanUp(<<>>)
    /\ UNCHANGED <<stop_flag, ctx, nbits, val, bit, start_ts, addr, rw, payload, out>>
    /\ UNCHANGED <<paused_seen, late_reads>>
    /\ UNCHANGED busVars
    /\ UNCHANGED notThreadVars

\* Wait for START, first half: self.pi.read(self.scl) == 1
Sa_StartScl ==
    /\ spc = "sa_scl"
    /\ spc' = IF scl = 1 THEN "sa_sda" ELSE "sa_limit"
    /\ UNCHANGED <<stop_flag, ctx, nbits, val, bit, start_ts, addr, rw, payload, out>>
    /\ UNCHANGED threadVars
    /\ UNCHANGED busVars
    /\ UNCHANGED notThreadVars

\* Wait for START, second half: self.pi.read(self.sda) == 0; on a START
\* log "START detected" and read_byte begins
Sa_StartSda ==
    /\ spc = "sa_sda"
    /\ IF sda = 0
       THEN /\ tlog' = Logged(tlog, <<LogLine("START detected", 0)>>)
            /\ Sa_BeginByte("hdr")
       ELSE /\ spc' = "sa_limit"
            /\ UNCHANGED <<tlog, ctx, nbits, val>>
    /\ UNCHANGED <<stop_flag, bit, start_ts, addr, rw, payload, out>>
    /\ UNCHANGED <<paused_seen, late_reads>>
    /\ UNCHANGED busVars
    /\ UNCHANGED notThreadVars

\* In the wait for START: if time.time() - start_time >= self.duration:
\* raise TimeoutError, which run logs before it cleans up
Sa_Limit ==
    /\ spc = "sa_limit"
    /\ IF now >= Duration
       THEN Sa_CleanUp(<<LogLine("Reached 20 second capture limit.", 0)>>)
       ELSE /\ spc' = "sa_scl"
            /\ UNCHANGED tlog
    /\ UNCHANGED <<stop_flag, ctx, nbits, val, bit, start_ts, addr, rw, payload, out>>
    /\ UNCHANGED <<paused_seen, late_reads>>
    /\ UNCHANGED busVars
    /\ UNCHANGED notThreadVars

\* wait_for_edge(self.scl, 1): while self.pi.read(pin) != edge: pass
Sa_WaitHi ==
    /\ spc = "sa_hi"
    /\ spc' = IF scl = 1 THEN "sa_sample" ELSE "sa_hi"
    /\ UNCHANGED <<stop_flag, ctx, nbits, val, bit, start_ts, addr, rw, payload, out>>
    /\ UNCHANGED threadVars
    /\ UNCHANGED busVars
    /\ UNCHANGED notThreadVars

\* read_bit: bit = self.pi.read(self.sda)
Sa_Sample ==
    /\ spc = "sa_sample"
    /\ bit' = sda
    /\ spc' = "sa_lo"
    /\ UNCHANGED <<stop_flag, ctx, nbits, val, start_ts, addr, rw, payload, out>>
    /\ UNCHANGED threadVars
    /\ UNCHANGED busVars
    /\ UNCHANGED notThreadVars

\* wait_for_edge(self.scl, 0): while self.pi.read(pin) != edge: pass; then
\* read_bit returns the bit and read_byte shifts it into val (bits 1 to 8)
\* or returns (val, ack) (bit 9), which run logs as the header or as a data
\* byte
Sa_WaitLo ==
    /\ spc = "sa_lo"
    /\ IF scl # 0
       THEN UNCHANGED <<spc, ctx, nbits, val, addr, rw, tlog>>
       ELSE IF nbits < 8
       THEN /\ val' = ShiftIn(val, bit)
            /\ nbits' = nbits + 1
            /\ spc' = "sa_hi"
            /\ UNCHANGED <<ctx, addr, rw, tlog>>
       ELSE /\ IF ctx = "hdr"
               THEN /\ addr' = HeaderAddr(val)
                    /\ rw' = HeaderRw(val)
                    /\ tlog' = Logged(tlog, <<LogLine("Master initiated transaction", val)>>)
               ELSE /\ tlog' = Logged(tlog, <<LogLine("Data", val)>>)
                    /\ UNCHANGED <<addr, rw>>
            /\ spc' = "sa_stop_scl"
            /\ UNCHANGED <<ctx, nbits, val>>
    /\ UNCHANGED <<stop_flag, bit, start_ts, payload, out>>
    /\ UNCHANGED <<paused_seen, late_reads>>
    /\ UNCHANGED busVars
    /\ UNCHANGED notThreadVars

\* Read until STOP, first half: self.pi.read(self.scl) == 1
Sa_StopScl ==
    /\ spc = "sa_stop_scl"
    /\ IF scl = 1
       THEN /\ spc' = "sa_stop_sda"
            /\ UNCHANGED <<ctx, nbits, val>>
       ELSE Sa_BeginByte("payload")
    /\ UNCHANGED <<stop_flag, bit, start_ts, addr, rw, payload, out>>
    /\ UNCHANGED threadVars
    /\ UNCHANGED busVars
    /\ UNCHANGED notThreadVars

\* Read until STOP, second half: self.pi.read(self.sda) == 1; on a STOP log
\* "STOP detected" and break to the test of the duration
Sa_StopSda ==
    /\ spc = "sa_stop_sda"
    /\ IF sda = 1
       THEN /\ tlog' = Logged(tlog, <<LogLine("STOP detected", 0)>>)
            /\ spc' = "sa_top"
            /\ UNCHANGED <<ctx, nbits, val>>
       ELSE /\ Sa_BeginByte("payload")
            /\ UNCHANGED tlog
    /\ UNCHANGED <<stop_flag, bit, start_ts, addr, rw, payload, out>>
    /\ UNCHANGED <<paused_seen, late_reads>>
    /\ UNCHANGED busVars
    /\ UNCHANGED notThreadVars

Sa_run ==
    \/ Sa_Top
    \/ Sa_StartScl
    \/ Sa_StartSda
    \/ Sa_Limit
    \/ Sa_WaitHi
    \/ Sa_Sample
    \/ Sa_WaitLo
    \/ Sa_StopScl
    \/ Sa_StopSda

\* The exchanges on the bus while the standalone sniffer logs.
StandaloneExchanges ==
    {[hdr |-> 6, data |-> <<>>, nack |-> FALSE],
     [hdr |-> 11, data |-> <<33>>, nack |-> TRUE]}

StandaloneInit ==
    /\ DiffIdle
    /\ ReplayIdle
    /\ ThreadIdle
    /\ ByteIdle
    /\ exch \in StandaloneExchanges
    /\ wave = Waveform(exch)
    /\ scl = 1
    /\ sda = 1
    /\ stalled = FALSE
    /\ everStalled = FALSE
    /\ sampled = FALSE
    /\ now = 0
    /\ stop_flag = FALSE
    /\ spc = "sa_top"
    /\ ctx = "hdr"
    /\ nbits = 0
    /\ val = 0
    /\ bit = 0
    /\ start_ts = 0
    /\ addr = 0
    /\ rw = 0
    /\ payload = <<>>
    /\ out = <<>>

StandaloneNext ==
    \/ BusRun
    \/ BusStall
    \/ Tick
    \/ Sa_run

\* The sniffer keeps running and the time goes by.
SpecStandalone ==
    StandaloneInit /\ [][StandaloneNext]_vars /\ WF_vars(Sa_run) /\ WF_vars(Tick)

-----------------------------------------------------------------------------
(* Properties of a capture *)

\* The master has sent the whole exchange without a hang, the capture has
\* neither been stopped nor run out of time, and the sniffer is back to
\* looking for a START.
ExchangeObserved ==
    /\ wave = <<>>
    /\ ~everStalled
    /\ ~stop_flag
    /\ now < deadline
    /\ spc = "scan"

\* C1: for an exchange (start condition, address+direction byte, payload
\* bytes each with an ack bit, stop condition) that the sniffer observes with
\* at least one sampling step per line change, sniff_for appends exactly one
\* Transaction, and its addr, rw and data are those of the exchange.
C1_DecodesExchange ==
    ExchangeObserved =>
        /\ Len(out) = 1
        /\ out[1].key = ExchangeKey(exch)

\* The sniffer is inside _wait_level, waiting for a clock edge of a bit.
InWait == spc \in {"wait_hi", "wait_lo"}

\* C14: a timeout while a payload byte is read (the header was read, no
\* stop() was called) appends nothing to out, and the sniffer goes back to
\* scanning for a START.
C14_PayloadTimeoutEmitsNothing ==
    [][(ctx = "payload" /\ InWait /\ ~stop_flag /\ spc' = "scan")
          => out' = out]_vars

\* C15: once the duration has elapsed, a transaction that was in flight is
\* appended to out only by the step that observes its stop condition.
C15_InFlightAtDeadlineDropped ==
    [][(now >= deadline /\ out' # out) => spc = "stop_sda"]_vars

\* C16: once stop() has been called, a transaction is appended to out only
\* by the step that observes its stop condition, and a byte that is being
\* read on a live bus is not abandoned.
C16_StopDiscardsPartial ==
    [][stop_flag =>
          /\ out' # out => spc = "stop_sda"
          /\ (InWait /\ ~Quiet) => spc' # "scan"
      ]_vars

\* C20: when the read of the header byte is given up, nothing is appended to
\* out and the sniffer is back at scanning for a START; sniff_for returns
\* only from that scan, and only when stop() was called or the duration has
\* elapsed.
C20_HeaderTimeoutKeepsSession ==
    [][/\ (ctx = "hdr" /\ InWait /\ spc' \notin {"wait_hi", "wait_lo", "sample", "stop_scl"})
            => (out' = out /\ spc' = "scan")
       /\ (spc # "returned" /\ spc' = "returned")
            => (spc = "scan" /\ (stop_flag \/ now >= deadline))
      ]_vars

\* C20 witness: the master hung inside the header byte, the read timed out
\* after some bits, and the capture, neither stopped nor out of time, scans
\* again with nothing appended.
C20_Witness ==
    /\ stalled
    /\ spc = "scan"
    /\ ctx = "hdr"
    /\ nbits \in 1..7
    /\ ~stop_flag
    /\ now < deadline
    /\ out = <<>>

\* The master has just made the start condition: SDA fell while SCL was
\* high, and SCL has not yet risen for the first bit.
StartConditionOnBus ==
    /\ Len(wave) < Len(Waveform(exch))
    /\ Len(wave) >= Len(Waveform(exch)) - 3

\* C23: from the scan for a START, sniff_for begins a transaction only when
\* the master has just made a start condition; SCL high with SDA low at any
\* other time (a 0 bit being clocked) does not begin one.
C23_StartOnlyOnStartCondition ==
    [][(spc = "scan_sda" /\ spc' = "wait_hi") => StartConditionOnBus]_vars

-----------------------------------------------------------------------------
(* Properties of the sniffer thread beside send_macro *)

\* The thread is at a pi.read.
AtRead == spc \in {"run_scl", "run_sda", "wfe_hi_read", "wfe_lo_read", "read_sample",
                   "pl_scl", "pl_sda"}

\* The thread is inside read_byte, between two bits of the byte.
DecodingByte ==
    /\ spc \in {"wfe_hi", "wfe_lo", "wfe_hi_read", "wfe_lo_read", "read_sample"}
    /\ nbits >= 1 \/ spc \in {"wfe_lo", "wfe_lo_read"}

\* The thread has seen a START and not yet ended the transaction.
InTransaction ==
    spc \in {"wfe_hi", "wfe_lo", "wfe_hi_read", "wfe_lo_read", "read_sample",
             "pl_pause", "pl_scl", "pl_sda"}

C12_NoReadWhilePaused == late_reads = 0

\* C12 amended: after pause_event is set the thread makes at most the two
\* pi.read calls that follow its latest test of the event; once a test has
\* found the event set, and for as long as it stays set, the thread makes no
\* pi.read, logs nothing and stays where it is.
C12_NoReadOncePauseSeen ==
    /\ [](late_reads <= 2)
    /\ [][(paused_seen /\ pause_event) =>
             /\ late_reads' = late_reads
             /\ tlog' = tlog
             /\ spc' = spc
         ]_vars

\* C12 witness: the thread made two reads after pause was set, then found
\* it set, and send_macro has written since.
C12_Witness ==
    /\ late_reads = 2
    /\ paused_seen
    /\ pause_event
    /\ Len(writes) >= 1

-----------------------------------------------------------------------------
(* Properties of the replay stage *)

\* delays[1] + ... + delays[n]
RECURSIVE SumTo(_, _)
SumTo(d, n) == IF n = 0 THEN 0 ELSE d[n] + SumTo(d, n - 1)

\* The entries (positions of the loop) a replay is due to write.
DueEntries ==
    IF fn = "replay_transactions"
    THEN LET S == RT_Sorted IN {i \in 1..Len(S) : S[i].key.rw = WRITE}
    ELSE 1..Len(macro)

Attempted == {writes[j].entry : j \in 1..Len(writes)}

OpenFailed ==
    \E i \in 1..Len(rlog) :
        rlog[i] \in {"Failed to open I2C bus", "Failed to open i2c bus"}

Completed == rpc = "done" /\ bus = "closed"

\* C7: replay_transactions attempts a write for exactly the WRITE entries of
\* txs, in start-time order, never for a READ entry, and the time waited
\* before each attempted write is the sum of the delays of all entries up to
\* and including its own.
C7_ReplayWritesAndTiming ==
    fn = "replay_transactions" =>
        LET S == RT_Sorted
        IN  /\ \A j \in 1..Len(writes) :
                  LET e == writes[j].entry
                  IN  /\ e \in 1..Len(rtxs)
                      /\ S[e].key.rw = WRITE
                      /\ writes[j].addr = S[e].key.addr
                      /\ writes[j].data = S[e].key.data
                      /\ writes[j].waited = SumTo(rdelays, e)
            /\ \A i, j \in 1..Len(writes) :
                  i < j =>
                      /\ writes[i].entry < writes[j].entry
                      /\ S[writes[i].entry].start_ts <= S[writes[j].entry].start_ts
            /\ Completed => Attempted = DueEntries

\* C7 witness: a finished replay with two writes, the last of them after a
\* skipped READ that had a positive delay.
C7_Witness ==
    /\ fn = "replay_transactions"
    /\ Completed
    /\ Len(writes) >= 2
    /\ \E i \in 1..Len(rtxs) :
          /\ i < writes[Len(writes)].entry
          /\ RT_Sorted[i].key.rw = READ
          /\ rdelays[i] > 0

\* C8: in both replay modes a failed write does not abort the sequence: the
\* operation goes on, and when it is done every entry due after the failed
\* one has been attempted, in order.
C8_FailureDoesNotAbort ==
    /\ \A j \in 1..Len(writes) :
          writes[j].result # "ok" =>
              /\ rpc # "done" => outcome = "running"
              /\ rpc = "done" =>
                    LET due == DueEntries
                    IN  \A e \in due :
                            e > writes[j].entry =>
                                \E m \in 1..Len(writes) :
                                    m > j /\ writes[m].entry = e
    /\ \A i, j \in 1..Len(writes) : i < j => writes[i].entry < writes[j].entry
    /\ rpc \in {"finally", "close", "settle2", "clear"}
          => idx = Len(IF fn = "send_macro" THEN macro ELSE rtxs)

\* C8 witness: a finished macro whose first write raised OSError, whose
\* second write raised another exception and whose third write went through.
C8_Witness ==
    /\ fn = "send_macro"
    /\ Completed
    /\ Len(writes) = 3
    /\ writes[1].result = "OSError"
    /\ writes[2].result = "Exception"
    /\ writes[3].result = "ok"

\* C9: when the bus cannot be opened the replay ends at once: no write is
\* attempted and no entry delay is waited, in either replay mode.
C9_OpenFailureAborts ==
    OpenFailed =>
        /\ rpc = "done"
        /\ writes = <<>>
        /\ waited = 0
        /\ bus = "none"

\* C9 witness: replay_transactions failed to open the bus with a WRITE entry
\* and a positive delay in its arguments.
C9_Witness ==
    /\ fn = "replay_transactions"
    /\ OpenFailed
    /\ DueEntries # {}
    /\ \E i \in 1..Len(rdelays) : rdelays[i] > 0

\* C10 as stated: a failure to open the bus reaches the caller as an error
\* outcome, not as a normal return.
C10_OpenFailurePropagates ==
    (OpenFailed /\ rpc = "done") => outcome = "raised"

\* C10 amended: a failure to open the bus does not propagate: the operation
\* logs it and returns normally, the outcome of a completed replay too; it
\* shows only in the log, which ends with the open-failure line and holds no
\* completion line.
C10_OpenFailureReturnsNormally ==
    OpenFailed =>
        /\ outcome = "returned"
        /\ rlog[Len(rlog)] \in {"Failed to open I2C bus", "Failed to open i2c bus"}
        /\ \A i \in 1..Len(rlog) :
              rlog[i] \notin {"Replay done.", "Macro send complete"}
        /\ pause_event = FALSE

\* C10 witness: send_macro has returned after failing to open the bus.
C10_Witness ==
    /\ fn = "send_macro"
    /\ OpenFailed
    /\ rpc = "done"
    /\ settles = 1

-----------------------------------------------------------------------------
(* Properties of send_macro *)

\* delay_ms of the first n entries of m
RECURSIVE MacroDelayTo(_, _)
MacroDelayTo(m, n) == IF n = 0 THEN 0 ELSE m[n].delay_ms + MacroDelayTo(m, n - 1)

\* C17: send_macro opens the bus only after pause has been set and a
\* settling sleep taken; pause stays set from then until after the bus is
\* closed; pause is set in one step (the first) and cleared in one step (the
\* one that returns), never in between.
C17_PauseWrapsBus ==
    /\ [](fn = "send_macro" =>
             /\ rpc \notin {"start", "done"} => pause_event
             /\ bus = "open" => (pause_event /\ settles >= 1))
    /\ [][fn = "send_macro" =>
             /\ (bus # "open" /\ bus' = "open") => (pause_event /\ settles >= 1)
             /\ (~pause_event /\ pause_event') => (rpc = "start" /\ writes = <<>>)
             /\ (pause_event /\ ~pause_event') => (rpc' = "done" /\ bus # "open")
          ]_vars

\* C17 witness: a macro that went through all its writes with the bus
\* opened and closed, and has resumed the sniffer.
C17_Witness ==
    /\ fn = "send_macro"
    /\ Completed
    /\ Len(writes) = Len(macro)
    /\ settles = 2
    /\ ~pause_event

C19_MacroOrderAndDelays ==
    fn = "send_macro" =>
        /\ \A j \in 1..Len(writes) :
              /\ writes[j].entry = j
              /\ writes[j].addr = macro[j].addr
              /\ writes[j].data = macro[j].data
              /\ writes[j].waited = MacroDelayTo(macro, j - 1)
        /\ rpc = "delay" => (Len(writes) = idx + 1 /\ waited = MacroDelayTo(macro, idx))
        /\ rpc = "loop" => (Len(writes) = idx /\ waited = MacroDelayTo(macro, idx))
        /\ Completed => (Len(writes) = Len(macro)
                           /\ waited = MacroDelayTo(macro, Len(macro)))

\* C19 witness: a finished macro whose first write failed and whose second
\* write came after the first entry's delay.
C19_Witness ==
    /\ fn = "send_macro"
    /\ Completed
    /\ writes[1].result = "OSError"
    /\ macro[1].delay_ms > 0
    /\ writes[2].waited = macro[1].delay_ms

\* C26: once replay_transactions or send_macro has opened the bus, it does
\* not return with the bus open: the handle is closed on every path, also
\* after writes that raised; a closed handle stays closed and no write is
\* attempted after the close.
C26_BusClosedBeforeReturn ==
    /\ [](/\ rpc = "done" => bus # "open"
          /\ bus = "open" => outcome = "running"
          /\ bus = "closed" => rpc \in {"done", "settle2", "clear"})
    /\ [][/\ bus = "closed" => (bus' = "closed" /\ writes' = writes)
          /\ (bus = "open" /\ bus' # "open") => bus' = "closed"
         ]_vars

\* C26 witness: replay_transactions has returned with the bus closed after a
\* write that raised and a later one that went through.
C26_Witness ==
    /\ fn = "replay_transactions"
    /\ rpc = "done"
    /\ bus = "closed"
    /\ Len(writes) >= 2
    /\ writes[1].result = "OSError"
    /\ writes[Len(writes)].result = "ok"

\* C27: replay_transactions gets to opening the bus only when txs is not
\* empty and txs and delays have the same length; with a length mismatch it
\* raises, with an empty txs it returns at once, and in both cases the bus
\* was never opened, nothing was waited and nothing was written.
C27_ChecksBeforeOpen ==
    fn = "replay_transactions" =>
        /\ (rpc \notin {"start", "done"} \/ bus # "none")
              => (rtxs # <<>> /\ Len(rtxs) = Len(rdelays))
        /\ (Len(rtxs) # Len(rdelays) \/ rtxs = <<>>)
              => /\ bus = "none"
                 /\ waited = 0
                 /\ writes = <<>>
                 /\ rpc = "done" =>
                       IF Len(rtxs) # Len(rdelays)
                       THEN outcome = "raised" /\ rlog = <<>>
                       ELSE outcome = "returned" /\ rlog = <<"Nothing to replay.">>

\* C27 witness: replay_transactions has raised on a list of two transactions
\* with a WRITE among them and three delays.
C27_Witness ==
    /\ fn = "replay_transactions"
    /\ rpc = "done"
    /\ outcome = "raised"
    /\ Len(rtxs) = 2
    /\ Len(rdelays) = 3
    /\ DueEntries # {}

-----------------------------------------------------------------------------
(* Properties of reading a byte *)

\* Some bit read of the byte gave no bit.
SomeReadTimedOut == \E i \in 1..9 : reads[i] = NoBit

\* A value was returned to the caller.
ByteReturned == spc \in {"byte_read", "hdr_done"}

\* C24: a byte that is returned has the value b1*128 + b2*64 + b3*32 +
\* b4*16 + b5*8 + b6*4 + b7*2 + b8 of the first eight bits read (most
\* significant first, so within 0..255) and the ninth bit as ack; for a
\* header addr is the value shifted right by one and rw its lowest bit; and
\* when any of the nine bit reads gives no bit, no value is returned.
C24_ReadByteValue ==
    /\ ByteReturned =>
          /\ val = reads[1] * 128 + reads[2] * 64 + reads[3] * 32
                     + reads[4] * 16 + reads[5] * 8 + reads[6] * 4
                     + reads[7] * 2 + reads[8]
          /\ val \in 0..255
          /\ bit = reads[9]
    /\ spc = "hdr_done" =>
          /\ addr \in 0..127
          /\ rw \in {0, 1}
          /\ addr * 2 + rw = val
    /\ SomeReadTimedOut => ~ByteReturned
    /\ (spc = "byte_none") => SomeReadTimedOut

\* The header 0xC8 (address 0x64, direction 0) was read with a NACK.
C24_Witness ==
    /\ spc = "hdr_done"
    /\ val = 200
    /\ addr = 100
    /\ rw = 0
    /\ bit = 1

-----------------------------------------------------------------------------
(* Properties of a sniffer left to run *)

\* The sniffer is inside _wait_level / wait_for_edge.
InEdgeWait ==
    spc \in {"wait_hi", "wait_lo", "wfe_hi", "wfe_hi_read", "wfe_lo",
             "wfe_lo_read"}

\* The deadline of sniff_for or the duration of run has passed, or stop()
\* was called.
TimeUp == now >= Duration \/ stop_flag

\* C21: with the pause event never set, once the bus is hung an edge wait
\* the sniffer is in comes to an end, and once the deadline or duration has
\* passed or stop is set, sniff_for returns and the thread's run loop ends,
\* whatever position the framing was in.
C21_FramingNeverBlocks ==
    /\ (Quiet /\ InEdgeWait) ~> ~InEdgeWait
    /\ (Quiet /\ TimeUp) ~> Finished

\* sniff_for has returned at its deadline, without stop(), after the master
\* hung in the middle of the header byte and the wait for the clock ran out.
C21_Witness ==
    /\ spc = "returned"
    /\ stalled
    /\ wave # <<>>
    /\ ~stop_flag
    /\ now >= Duration
    /\ nbits = 3

\* C25: in the threaded sniffer, once stop() has been called the run loop
\* ends and the thread cleans up, also when the pause event stays set for
\* ever, from whatever position the thread was in.
C25_StopOverridesPause == stop_flag ~> (spc = "ended")

\* The thread was held by the pause inside an edge wait, two bits into a
\* byte, stop() was called while the pause was still set, and the thread
\* has cleaned up.
C25_Witness ==
    /\ spc = "ended"
    /\ stop_flag
    /\ pause_event
    /\ paused_seen
    /\ nbits = 2
    /\ Len(tlog) >= 2
    /\ tlog[Len(tlog)].ev = "Sniffer cleaning up."
    /\ tlog[Len(tlog) - 1].ev = "Sniffer exception"

-----------------------------------------------------------------------------
(* Properties of the standalone sniffer *)

\* The standalone sniffer polls the clock for a level that the hung bus is
\* never going to show.
Sa_WaitsInVain ==
    /\ stalled
    /\ \/ spc = "sa_hi" /\ scl = 0
       \/ spc = "sa_lo" /\ scl = 1

\* C22: the standalone sniffer ends once its duration has elapsed, whatever
\* the bus does: it is never left, after the duration, in a wait for a
\* clock edge that the hung bus cannot end, from which run would not reach
\* its cleanup.
C22_EndsAfterDuration == ~(now >= Duration /\ Sa_WaitsInVain)

\* The same as a property of the whole run: once the duration has elapsed
\* run reaches its cleanup.
C22_EventuallyCleansUp == (now >= Duration) ~> (spc = "sa_done")

-----------------------------------------------------------------------------
(* Properties of the diff stage *)

Diffed == dpc \in {"diffed", "timed"}
Timed == dpc \in {"timed", "timed_capture"}

\* The transactions of s with key k, in the order of s.
OfKey(s, k) == SelectSeq(s, LAMBDA t : t.key = k)

\* Number of transactions of s with key k and start time ts.
CountKeyAt(s, k, ts) ==
    Cardinality({i \in 1..Len(s) : s[i].key = k /\ s[i].start_ts = ts})

\* The i-th smallest start time of s (1 <= i <= Len(s)).
NthTs(s, i) ==
    CHOOSE ts \in 0..MaxTs :
        /\ Cardinality({j \in 1..Len(s) : s[j].start_ts < ts}) < i
        /\ i <= Cardinality({j \in 1..Len(s) : s[j].start_ts <= ts})

\* a is a subsequence of b
RECURSIVE IsSubseq(_, _)
IsSubseq(a, b) ==
    IF a = <<>> THEN TRUE
    ELSE IF b = <<>> THEN FALSE
    ELSE IF Head(a) = Head(b) THEN IsSubseq(Tail(a), Tail(b))
    ELSE IsSubseq(a, Tail(b))

\* C2: for every key k the number of transactions with key k in
\* multiset_difference(new, base) is max(0, count_new(k) - count_base(k)),
\* and every key of the result is a key of new.
C2_DiffCounts ==
    Diffed =>
        /\ \A k \in DiffKeys :
              CountKey(results, k)
                  = Max(0, CountKey(new, k) - CountKey(base, k))
        /\ \A i \in 1..Len(results) : CountKey(new, results[i].key) > 0

\* C2 witness: one key has an overage below its count in new, and the other
\* key of new is covered by the baseline.
C2_Witness ==
    /\ dpc = "diffed"
    /\ \E k \in DiffKeys :
          /\ CountKey(base, k) > 0
          /\ CountKey(new, k) > CountKey(base, k)
    /\ \E k \in DiffKeys :
          /\ CountKey(new, k) > 0
          /\ CountKey(new, k) <= CountKey(base, k)

\* C3: the kept instances of a key are the over[k] instances with the
\* earliest start times: no instance of k is dropped at a start time earlier
\* than that of a kept instance of k.
C3_EarliestKept ==
    Diffed =>
        \A k \in DiffKeys :
            /\ CountKey(results, k) <= CountKey(new, k)
            /\ \A t1, t2 \in 0..MaxTs :
                  (t1 < t2 /\ CountKeyAt(new, k, t1) > CountKeyAt(results, k, t1))
                      => CountKeyAt(results, k, t2) = 0

\* C3 witness: a key with 0 < over < count whose instance listed first is not
\* the earliest one, so that list order and time order disagree.
C3_Witness ==
    /\ dpc = "diffed"
    /\ \E k \in DiffKeys :
          /\ Over(new, base, k) > 0
          /\ Over(new, base, k) < CountKey(new, k)
          /\ Len(OfKey(new, k)) >= 2
          /\ OfKey(new, k)[1].start_ts > OfKey(new, k)[2].start_ts

ThreeAgainstOne(k) == CountKey(new, k) = 3 /\ CountKey(base, k) = 1

\* C4 as stated: with three instances of K in the action capture and one in
\* the baseline, the diff keeps the 2nd and 3rd chronological instances.
C4_KeepsSecondAndThird ==
    Diffed =>
        \A k \in DiffKeys :
            ThreeAgainstOne(k)
                => OfKey(results, k) = SubSeq(OfKey(SortedByTs(new), k), 2, 3)

\* C4 amended: with three instances of K in the action capture and one in
\* the baseline, the diff keeps the 1st and 2nd chronological instances of K
\* (ties in start time broken by position in the capture) and drops the 3rd.
C4_KeepsFirstAndSecond ==
    Diffed =>
        \A k \in DiffKeys :
            ThreeAgainstOne(k)
                => /\ OfKey(results, k) = SubSeq(OfKey(SortedByTs(new), k), 1, 2)
                   /\ OfKey(results, k)[1].start_ts = NthTs(OfKey(new, k), 1)
                   /\ OfKey(results, k)[2].start_ts = NthTs(OfKey(new, k), 2)

\* C4 witness: three instances of K at three different start times against
\* one baseline instance.
C4_Witness ==
    /\ dpc = "diffed"
    /\ \E k \in DiffKeys :
          /\ ThreeAgainstOne(k)
          /\ \A i, j \in 1..3 :
                i # j => OfKey(new, k)[i].start_ts # OfKey(new, k)[j].start_ts

\* C5: the result is in start-time order, every element of it is an element
\* of new, and it is a subsequence of new taken in start-time order.
C5_OrderPreserved ==
    Diffed =>
        /\ \A i, j \in 1..Len(results) :
              i < j => results[i].start_ts <= results[j].start_ts
        /\ \A i \in 1..Len(results) : \E j \in 1..Len(new) : new[j] = results[i]
        /\ IsSubseq(results, SortedByTs(new))

\* C5 witness: two transactions are kept whose order in the capture is the
\* reverse of their start-time order.
C5_Witness ==
    /\ dpc = "diffed"
    /\ Len(results) >= 2
    /\ \E i, j \in 1..Len(new) :
          /\ i < j
          /\ new[i].start_ts > new[j].start_ts
          /\ new[j] = results[1]
          /\ new[i] = results[2]

\* C6: compute_intervals(txs) has the length of txs; for a non-empty txs its
\* first element is 0 and element i is the non-negative gap between the i-th
\* and the (i-1)-th start time in start-time order; for the empty list it is
\* the empty list.
C6_Intervals ==
    Timed =>
        /\ Len(delays) = Len(txs)
        /\ txs = <<>> => delays = <<>>
        /\ txs # <<>> => delays[1] = 0
        /\ \A i \in 2..Len(txs) :
              /\ delays[i] >= 0
              /\ delays[i] = NthTs(txs, i) - NthTs(txs, i - 1)

\* C6 witness: intervals of a list of three that is not in start-time order,
\* with a positive gap.
C6_Witness ==
    /\ dpc = "timed_capture"
    /\ Len(txs) = 3
    /\ txs[1].start_ts > txs[2].start_ts
    /\ delays[3] > 0

====
